---- MODULE Spec2Model ----
(***************************************************************************)
(* Model of astrbot_plugin_BitTorrent (src/main.py): the "bt" command      *)
(* handler of MagnetSearchPlugin and the scrape pipeline of                *)
(* MagnetSearchService.search.                                             *)
(*                                                                         *)
(* Texts are sequences of one-character strings (longer strings stand for  *)
(* a fixed literal such as "xq.php?key=").  A coroutine runs atomically    *)
(* between two network awaits, so one action is one such stretch.          *)
(***************************************************************************)
EXTENDS Integers, Sequences, FiniteSets, TLC

\* ---------------------------------------------------------------- bounds
\* concurrent command invocations
NumInv == 2
\* tokens of a command message
MaxArgs == 4
\* list items of a result page (candidate-collection specification)
MaxItems == 4
\* largest configured max_results that is drawn
MaxCfg == 3
\* result-page length of the pagination specification
MaxLen == 4

\* ---------------------------------------------------- program constants
\* str(e)[:30] of the per-candidate handler
DetailErrLimit == 30
\* str(e)[:50] of the top-level handler
TopErrLimit == 50
\* "[a-fA-F0-9]{40,}" of the magnet pattern
MinHexLen == 40

Min(a, b) == IF a <= b THEN a ELSE b

Invs == 1 .. NumInv

\* ------------------------------------------------------------ text helpers
StartsWith(s, p) == Len(s) >= Len(p) /\ SubSeq(s, 1, Len(p)) = p

Contains(s, c) == \E i \in 1 .. Len(s) : s[i] = c

\* s[:n]
Truncate(s, n) == SubSeq(s, 1, Min(n, Len(s)))

\* An exception text of n characters.
ExcText(n) == [i \in 1 .. n |-> IF i % 3 = 0 THEN "c" ELSE IF i % 3 = 1 THEN "a" ELSE "b"]

\* ------------------------------------------------- MagnetUtils.decrypt_base64
\* A payload is a sequence over "d" (a character of the Base64 alphabet) and
\* "x" (any other character, which b64decode discards).
CountData(chars) == Cardinality({i \in 1 .. Len(chars) : chars[i] = "d"})

\* '=' characters that ljust appends
PadCount(chars) == (4 - (Len(chars) % 4)) % 4

\* b64decode raises binascii.Error unless the data characters fill whole
\* quads, the last one completed by the padding.
B64DecodeOk(chars) ==
    LET q == CountData(chars) % 4
        pads == PadCount(chars)
    IN  \/ q = 0
        \/ q = 2 /\ pads >= 2
        \/ q = 3 /\ pads >= 1

\* The empty document: "" parsed.
EmptyHtml == [container |-> FALSE, items |-> <<>>, magnet |-> <<>>, hexlen |-> 0]

\* binascii.Error caught at line 47
B64RaisesNever(chars) == FALSE
B64Raises(chars) == ~B64DecodeOk(chars)

\* decoded is the document the payload encodes; "" when decoding raises.
decrypt_base64(chars, decoded) ==
    IF B64Raises(chars) THEN EmptyHtml ELSE decoded

\* ---------------------------------------------------- MagnetUtils.get_full_url
get_full_url(base_url, relative_url) ==
    IF StartsWith(relative_url, <<"h", "t", "t", "p">>) THEN relative_url
    ELSE IF StartsWith(relative_url, <<".", "/">>)
         THEN base_url \o <<"/">> \o SubSeq(relative_url, 3, Len(relative_url))
    ELSE IF StartsWith(relative_url, <<"/">>) THEN base_url \o relative_url
    ELSE base_url \o <<"/">> \o relative_url

\* config.base_url after __post_init__ (no trailing "/")
BaseUrl == <<"b">>

\* --------------------------------------------------------- parsed documents
\* A document is [container, items, magnet, hexlen]: whether it holds
\* ul#Search_list_wrapper, that list's li elements, the URI of an
\* <a href="magnet:?xt=urn:btih:..."> it holds (<<>>: none) and the number of
\* hex characters of that URI's hash.
\* A li is [pagination, href, text, size, time]: whether it holds
\* ul.pagination, the href of its first anchor (<<>>: no anchor), the
\* anchor's stripped text, and what the size and date patterns capture.
XQ == "xq.php?key="

LiPagination ==
    [pagination |-> TRUE, href |-> <<"/", XQ, "9">>, text |-> <<"P">>,
     size |-> <<>>, time |-> <<>>]
LiNoAnchor ==
    [pagination |-> FALSE, href |-> <<>>, text |-> <<>>, size |-> <<>>, time |-> <<>>]
LiOtherLink ==
    [pagination |-> FALSE, href |-> <<"/", "o">>, text |-> <<"O">>,
     size |-> <<>>, time |-> <<>>]
LiA ==
    [pagination |-> FALSE, href |-> <<"/", XQ, "1">>, text |-> <<"A">>,
     size |-> <<"1.5 GB">>, time |-> <<"2024-01-02">>]
LiADot ==
    [pagination |-> FALSE, href |-> <<".", "/", XQ, "1">>, text |-> <<"A'">>,
     size |-> <<"2 MB">>, time |-> <<>>]
LiB ==
    [pagination |-> FALSE, href |-> <<XQ, "2">>, text |-> <<>>,
     size |-> <<>>, time |-> <<>>]
LiC ==
    [pagination |-> FALSE, href |-> <<"h", "t", "t", "p", ":", XQ, "3">>, text |-> <<"C">>,
     size |-> <<"3 KB">>, time |-> <<"2023-12-31">>]

\* li.find("a", href=re.compile(r"xq\.php\?key=")) found an anchor
HasDetailLink(li) == Contains(li.href, XQ)

\* ------------------------------------------ search: candidate-collection loop
\* The loop state: idx is enumerate's index of the next li, stopped is set
\* by the break.
LoopStart ==
    [idx |-> 0, detail_links |-> <<>>, processed_urls |-> {}, stopped |-> FALSE]

\* "if idx >= self.config.max_results: break"
LoopBreak(idx, max_results) == idx >= max_results

\* "if full_url in processed_urls: continue"
AlreadySeenNever(full_url, processed_urls) == FALSE
AlreadySeen(full_url, processed_urls) == full_url \in processed_urls

\* The fallbacks "result_", "unknown_size" and "unknown_time" stand for the
\* literals of lines 139, 141 and 143.
\* One iteration of "for idx, li in enumerate(result_container.find_all('li'))".
LoopBody(st, li, max_results) ==
    IF LoopBreak(st.idx, max_results) THEN [st EXCEPT !.stopped = TRUE]
    ELSE IF li.pagination THEN [st EXCEPT !.idx = @ + 1]
    ELSE IF ~HasDetailLink(li) THEN [st EXCEPT !.idx = @ + 1]
    ELSE LET full_url == get_full_url(BaseUrl, li.href) IN
         IF AlreadySeen(full_url, st.processed_urls) THEN [st EXCEPT !.idx = @ + 1]
         ELSE [idx |-> st.idx + 1,
               processed_urls |-> st.processed_urls \cup {full_url},
               detail_links |-> Append(st.detail_links,
                   [url |-> full_url,
                    title |-> IF li.text # <<>> THEN li.text
                              ELSE <<"result_", ToString(st.idx + 1)>>,
                    size |-> IF li.size # <<>> THEN li.size ELSE <<"unknown_size">>,
                    create_time |-> IF li.time # <<>> THEN li.time ELSE <<"unknown_time">>]),
               stopped |-> FALSE]

RECURSIVE RunLoop(_, _, _)
RunLoop(st, items, max_results) ==
    IF st.stopped \/ st.idx >= Len(items) THEN st
    ELSE RunLoop(LoopBody(st, items[st.idx + 1], max_results), items, max_results)

\* detail_links when the loop has ended
CollectCandidates(items, max_results) == RunLoop(LoopStart, items, max_results).detail_links

\* -------------------------------------------------- search: the two stages
\* A response is [ok, exc, body]: whether client.get returned, the text of
\* the exception it raised otherwise, and the body [marker, payload, html]:
\* whether the text holds window.atob('<payload>', the payload's characters,
\* and the document (the one the payload encodes when there is a marker,
\* the text itself otherwise).
NoBody == [marker |-> FALSE, payload |-> <<>>, html |-> EmptyHtml]

Raised(text) == [ok |-> FALSE, exc |-> text, body |-> NoBody]

Plain(html) == [ok |-> TRUE, exc |-> <<>>, body |-> [marker |-> FALSE, payload |-> <<>>, html |-> html]]

Atob(chars, html) ==
    [ok |-> TRUE, exc |-> <<>>, body |-> [marker |-> TRUE, payload |-> chars, html |-> html]]

Line(label, value) == [label |-> label, value |-> value]

\* f"搜索失败：{str(e)[:50]}": the label "search_failed:" stands for "搜索失败："
FailureNoTruncation(exc) == <<Line("search_failed:", exc)>>
FailureRecord(exc) == <<Line("search_failed:", Truncate(exc, TopErrLimit))>>

\* Lines 98-153: what the stretch from the search response to the first
\* detail request computes.  kind is "exception" (the outer handler ran),
\* "empty" (one of the three "return []") or "candidates".
MissingContainer(soup) == ~soup.container

SearchStage(resp, max_results) ==
    LET none == [kind |-> "empty", soup |-> EmptyHtml, detail_links |-> <<>>, results |-> <<>>]
    IN  IF ~resp.ok
        THEN [none EXCEPT !.kind = "exception", !.results = <<FailureRecord(resp.exc)>>]
        ELSE IF ~resp.body.marker THEN none
        ELSE LET soup == decrypt_base64(resp.body.payload, resp.body.html) IN
             IF MissingContainer(soup) THEN none
             ELSE LET links == CollectCandidates(soup.items, max_results) IN
                  IF links = <<>> THEN none
                  ELSE [kind |-> "candidates", soup |-> soup, detail_links |-> links,
                        results |-> <<>>]

\* soup.find("a", href=re.compile(r"magnet:\?xt=urn:btih:")): <<>> is None
SoupFindMagnet(soup) == soup.magnet

\* re.search(r"magnet:\?xt=urn:btih:[a-fA-F0-9]{40,}[^\"']*", detail_html)
MagnetRegex(detail_html) ==
    IF detail_html.magnet # <<>> /\ detail_html.hexlen >= MinHexLen
    THEN detail_html.magnet ELSE <<>>

\* The except branch of line 185; "parse_failed:" stands for "解析失败：".
DegradedRecord(link, exc) ==
    <<Line("title:", link.title),
      Line("parse_failed:", Truncate(exc, DetailErrLimit)),
      Line("size:", link.size)>>

\* Lines 158-185: the record of one candidate, from the response to its
\* detail request and the parse tree of the search page.
DetailRecord(link, resp, soup) ==
    IF ~resp.ok THEN DegradedRecord(link, resp.exc)
    ELSE LET detail_html == IF resp.body.marker
                            THEN decrypt_base64(resp.body.payload, resp.body.html)
                            ELSE resp.body.html
             magnet_a == SoupFindMagnet(soup)
             magnet_link == IF magnet_a # <<>> THEN magnet_a ELSE MagnetRegex(detail_html)
         IN  <<Line("title:", link.title),
               Line("magnet:", IF magnet_link # <<>> THEN magnet_link ELSE <<"not_extracted">>),
               Line("size:", link.size),
               Line("time:", link.create_time)>>

\* ------------------------------------------------------ the command handler
BT == <<"b", "t">>
FlagP == <<"-", "p">>
FlagPage == <<"-", "-", "p", "a", "g", "e">>

DecimalChars == <<"0", "1", "2", "3", "4", "5", "6", "7", "8", "9">>

\* "sup2" is the character U+00B2, a digit to str.isdigit and not to int.
OtherDigitChars == {"sup2"}

IsDecimalChar(c) == \E i \in 1 .. Len(DecimalChars) : DecimalChars[i] = c

\* str.isdigit
isdigit(tok) ==
    /\ Len(tok) > 0
    /\ \A i \in 1 .. Len(tok) : IsDecimalChar(tok[i]) \/ tok[i] \in OtherDigitChars

\* int(tok) raises ValueError
IntRaises(tok) == \E i \in 1 .. Len(tok) : ~IsDecimalChar(tok[i])

DigitVal(c) == (CHOOSE i \in 1 .. Len(DecimalChars) : DecimalChars[i] = c) - 1

RECURSIVE IntVal(_)
IntVal(tok) ==
    IF tok = <<>> THEN 0
    ELSE IntVal(SubSeq(tok, 1, Len(tok) - 1)) * 10 + DigitVal(tok[Len(tok)])

\* list.index, 1-based
IndexOf(args, t) ==
    CHOOSE i \in 1 .. Len(args) : args[i] = t /\ \A j \in 1 .. i - 1 : args[j] # t

\* " ".join(keyword_parts)
RECURSIVE Join(_)
Join(parts) ==
    IF parts = <<>> THEN <<>>
    ELSE IF Len(parts) = 1 THEN parts[1]
    ELSE parts[1] \o <<" ">> \o Join(Tail(parts))

Rejected(outcome) == [outcome |-> outcome, page |-> 1, keyword_parts |-> <<>>]

\* Lines 295-305, with page and keyword_parts set.
CheckPageAndKeyword(page, keyword_parts) ==
    IF page < 1 THEN Rejected("page_below_1")
    ELSE IF keyword_parts = <<>> THEN Rejected("usage")
    ELSE [outcome |-> "search", page |-> page, keyword_parts |-> keyword_parts]

\* Lines 277-283 and 285-291: the branch of one flag.
ParseFlag(rest, flag) ==
    LET p_idx == IndexOf(rest, flag) IN
    IF p_idx + 1 > Len(rest) \/ ~isdigit(rest[p_idx + 1]) THEN Rejected("invalid_page")
    ELSE IF IntRaises(rest[p_idx + 1]) THEN Rejected("ValueError")
    ELSE CheckPageAndKeyword(IntVal(rest[p_idx + 1]),
                             SubSeq(rest, 1, p_idx - 1) \o SubSeq(rest, p_idx + 2, Len(rest)))

\* Lines 268-303: args is message.split().  outcome is "search", the
\* message the handler answers with, or "ValueError" when int() raises.
ParseCommand(args) ==
    IF Len(args) < 2 \/ args[1] # BT THEN Rejected("usage")
    ELSE LET args_after_cmd == Tail(args) IN
         IF Contains(args_after_cmd, FlagP) THEN ParseFlag(args_after_cmd, FlagP)
         ELSE IF Contains(args_after_cmd, FlagPage) THEN ParseFlag(args_after_cmd, FlagPage)
         ELSE CheckPageAndKeyword(1, args_after_cmd)

\* One Comp.Plain of the chain.
Entry(label, a, b, c, res) == [label |-> label, a |-> a, b |-> b, c |-> c, res |-> res]

\* Lines 313-317
EffectivePageSize(page_size, n) == IF page_size > 0 THEN page_size ELSE n

\* Line 324
SliceStartNextPage(page, page_size) == page * page_size
SliceStart(page, page_size) == (page - 1) * page_size

\* Lines 308-329: the chain the handler answers with for the results of search.
Paginate(results, cfg_page_size, page) ==
    IF results = <<>> THEN <<Entry("not_found", 0, 0, 0, <<>>)>>
    ELSE LET page_size == EffectivePageSize(cfg_page_size, Len(results))
             total_pages == (Len(results) + page_size - 1) \div page_size
             start == SliceStart(page, page_size)
             page_results == SubSeq(results, start + 1, Min(start + page_size, Len(results)))
         IN  IF page > total_pages THEN <<Entry("out_of_range", total_pages, 0, 0, <<>>)>>
             ELSE <<Entry("found", Len(results), page, total_pages, <<>>)>>
                  \o [i \in 1 .. Len(page_results) |->
                        Entry("result", start + i, 0, 0, page_results[i])]

\* ------------------------------------------------------------------ state
VARIABLES
    search_config,   \* MagnetSearchPlugin.search_config
    search_service,  \* MagnetSearchPlugin.search_service: a service object's id
    services,        \* the MagnetSearchService objects: id -> [config, client]
    sessions,        \* the httpx.AsyncClient objects: id -> [state, owner]
    pc,              \* where each handler invocation stands
    message,         \* the args of the command it handles
    self_,           \* the service its search runs on (self in search)
    call,            \* the arguments it passed to search, <<[keyword, page]>>
    search_resp,     \* the response to its search request, <<resp>>
    soup,            \* search's soup
    detail_links,    \* search's detail_links
    fetched,         \* the responses to its detail requests
    results,         \* search's results
    chain,           \* the chain the handler yielded
    reqLog,          \* its client.get calls: [client, open]
    closeLog,        \* its client.aclose calls
    loop,            \* the candidate-collection loop taken alone: its state,
    loop_items,      \* the li elements it walks
    loop_max         \* and config.max_results

plugin_vars == <<search_config, search_service, services, sessions>>
inv_vars == <<pc, message, self_, call, search_resp, soup, detail_links, fetched,
              results, chain, reqLog, closeLog>>
loop_vars == <<loop, loop_items, loop_max>>
vars == <<plugin_vars, inv_vars, loop_vars>>

\* _build_config's defaults for max_results and page_size (lines 238-239)
DefaultConfig == [max_results |-> 20, page_size |-> 5]

NoService == [config |-> DefaultConfig, client |-> 0]
NoSession == [state |-> "none", owner |-> 0]

\* The plugin after __init__ (lines 205-210): service 0, no client yet.
InitPlugin ==
    /\ search_config = DefaultConfig
    /\ search_service = 0
    /\ services = [s \in 0 .. NumInv |-> NoService]
    /\ sessions = [c \in 1 .. NumInv |-> NoSession]
    /\ pc = [h \in Invs |-> "idle"]
    /\ message = [h \in Invs |-> <<>>]
    /\ self_ = [h \in Invs |-> 0]
    /\ call = [h \in Invs |-> <<>>]
    /\ search_resp = [h \in Invs |-> <<>>]
    /\ soup = [h \in Invs |-> EmptyHtml]
    /\ detail_links = [h \in Invs |-> <<>>]
    /\ fetched = [h \in Invs |-> <<>>]
    /\ results = [h \in Invs |-> <<>>]
    /\ chain = [h \in Invs |-> <<>>]
    /\ reqLog = [h \in Invs |-> <<>>]
    /\ closeLog = [h \in Invs |-> <<>>]

InitLoopIdle ==
    /\ loop = LoopStart
    /\ loop_items = <<>>
    /\ loop_max = 0

\* Service and client objects created so far.
ServicesMade == Cardinality({h \in Invs : pc[h] # "idle"})
ClientsMade == Cardinality({c \in DOMAIN sessions : sessions[c].state # "none"})

\* _refresh_config (lines 249-251): a new MagnetSearchService, with
\* client None, becomes search_service.  The result is the new services and
\* the id of search_service.
refresh_config_keeping_service(svcs, current, cfg) ==
    [services |-> [svcs EXCEPT ![current].config = cfg], search_service |-> current]
refresh_config(svcs, current, cfg) ==
    LET new == ServicesMade + 1
    IN  [services |-> [svcs EXCEPT ![new] = [config |-> cfg, client |-> 0]],
         search_service |-> new]

\* client.get(url) on the service's client: the call as logged.
GetCall(svcs, sess, s) ==
    LET cl == svcs[s].client
    IN  [client |-> cl, open |-> cl # 0 /\ sess[cl].state = "open"]

\* client.aclose()
aclose_forgotten(sess, cl) == sess
aclose(sess, cl) == [sess EXCEPT ![cl].state = "closed"]

\* The finally clause of search (lines 190-192) run by invocation h.
Finally(h) ==
    LET cl == services[self_[h]].client
    IN  IF cl # 0
        THEN /\ sessions' = aclose(sessions, cl)
             /\ closeLog' = [closeLog EXCEPT ![h] = Append(@, cl)]
        ELSE UNCHANGED <<sessions, closeLog>>

\* ---------------------------------------------------------------- actions
\* The handler from the command to its first await: _refresh_config, the
\* parse of the arguments and, for a valid command, search up to the
\* search request (lines 260-306 and 89-98).
Command(h, args, cfg) ==
    /\ pc[h] = "idle"
    /\ LET parsed == ParseCommand(args)
           fresh == refresh_config(services, search_service, cfg)
           s == fresh.search_service
           cl == ClientsMade + 1
           opened == [fresh.services EXCEPT ![s].client = cl]
       IN  /\ search_config' = cfg
           /\ search_service' = s
           /\ message' = [message EXCEPT ![h] = args]
           /\ IF parsed.outcome = "search"
              THEN /\ services' = opened
                   /\ sessions' = [sessions EXCEPT ![cl] = [state |-> "open", owner |-> h]]
                   /\ self_' = [self_ EXCEPT ![h] = s]
                   /\ call' = [call EXCEPT ![h] =
                                 <<[keyword |-> Join(parsed.keyword_parts),
                                    page |-> parsed.page]>>]
                   /\ reqLog' = [reqLog EXCEPT ![h] = <<[client |-> cl, open |-> TRUE]>>]
                   /\ pc' = [pc EXCEPT ![h] = "await_search"]
                   /\ UNCHANGED chain
              ELSE /\ services' = fresh.services
                   /\ pc' = [pc EXCEPT ![h] =
                               IF parsed.outcome = "ValueError" THEN "raised" ELSE "done"]
                   /\ chain' = [chain EXCEPT ![h] =
                                  IF parsed.outcome = "ValueError" THEN <<>>
                                  ELSE <<Entry(parsed.outcome, 0, 0, 0, <<>>)>>]
                   /\ UNCHANGED <<sessions, self_, call, reqLog>>
    /\ UNCHANGED <<search_resp, soup, detail_links, fetched, results, closeLog, loop_vars>>

\* search from the search response to the first detail request, or to the
\* aclose of its finally clause (lines 98-158, 187-192).
SearchResponse(h, resp) ==
    /\ pc[h] = "await_search"
    /\ LET stage == SearchStage(resp, services[self_[h]].config.max_results)
       IN  /\ search_resp' = [search_resp EXCEPT ![h] = <<resp>>]
           /\ soup' = [soup EXCEPT ![h] = stage.soup]
           /\ detail_links' = [detail_links EXCEPT ![h] = stage.detail_links]
           /\ results' = [results EXCEPT ![h] = stage.results]
           /\ IF stage.kind = "candidates"
              THEN /\ reqLog' = [reqLog EXCEPT ![h] =
                                   Append(@, GetCall(services, sessions, self_[h]))]
                   /\ pc' = [pc EXCEPT ![h] = "await_detail"]
                   /\ UNCHANGED <<sessions, closeLog>>
              ELSE /\ Finally(h)
                   /\ pc' = [pc EXCEPT ![h] = "await_close"]
                   /\ UNCHANGED reqLog
    /\ UNCHANGED <<search_config, search_service, services, message, self_, call,
                   fetched, chain, loop_vars>>

\* "for link in detail_links" goes on to candidate i + 1 of n, whatever the
\* response to candidate i's request was.
LoopStopsOnFailure(i, n, resp) == resp.ok /\ i < n
LoopContinues(i, n, resp) == i < n

\* search from a detail response to the next detail request, or to the
\* aclose of its finally clause (lines 156-192).
DetailResponse(h, resp) ==
    /\ pc[h] = "await_detail"
    /\ LET i == Len(fetched[h]) + 1
           rec == DetailRecord(detail_links[h][i], resp, soup[h])
       IN  /\ fetched' = [fetched EXCEPT ![h] = Append(@, resp)]
           /\ results' = [results EXCEPT ![h] = Append(@, rec)]
           /\ IF LoopContinues(i, Len(detail_links[h]), resp)
              THEN /\ reqLog' = [reqLog EXCEPT ![h] =
                                   Append(@, GetCall(services, sessions, self_[h]))]
                   /\ UNCHANGED <<pc, sessions, closeLog>>
              ELSE /\ Finally(h)
                   /\ pc' = [pc EXCEPT ![h] = "await_close"]
                   /\ UNCHANGED reqLog
    /\ UNCHANGED <<search_config, search_service, services, message, self_, call,
                   search_resp, soup, detail_links, chain, loop_vars>>

\* search returns and the handler builds the chain (lines 194, 306-332).
SearchReturn(h) ==
    /\ pc[h] = "await_close"
    /\ chain' = [chain EXCEPT ![h] =
                   Paginate(results[h], search_config.page_size, call[h][1].page)]
    /\ pc' = [pc EXCEPT ![h] = "done"]
    /\ UNCHANGED <<plugin_vars, message, self_, call, search_resp, soup, detail_links,
                   fetched, results, reqLog, closeLog, loop_vars>>

\* ------------------------------------------------------------- input sets
MagnetUri(k) == <<"magnet:?xt=urn:btih:", k>>

Doc(items, magnet) ==
    [container |-> TRUE, items |-> items, magnet |-> magnet,
     hexlen |-> IF magnet = <<>> THEN 0 ELSE MinHexLen]

\* A document without the result list.
Page(magnet, hexlen) ==
    [container |-> FALSE, items |-> <<>>, magnet |-> magnet, hexlen |-> hexlen]

\* A qualifying li with a link, a title and a size of its own.
LiN(n) ==
    [pagination |-> FALSE, href |-> <<"/", XQ, ToString(n)>>, text |-> <<"T", ToString(n)>>,
     size |-> <<ToString(n), " MB">>, time |-> <<>>]

PayloadOk == <<"d", "d", "d", "d">>
Payloads == {PayloadOk, <<"d", "d", "d">>, <<"d">>, <<"d", "d", "x", "x">>}

ErrLens == {0, 2, DetailErrLimit + 1, TopErrLimit + 1}

Keyword == <<"k">>

\* The pipeline: one command, every shape of response.
PipeMsgs == {<<BT, Keyword>>, <<BT, Keyword, FlagP, <<"2">>>>}
PipeCfgs == {[max_results |-> m, page_size |-> 5] : m \in 0 .. MaxCfg}
PipeItemLists ==
    {<<>>, <<LiNoAnchor, LiPagination, LiOtherLink>>, <<LiA>>, <<LiA, LiADot, LiB>>,
     <<LiPagination, LiB, LiC>>, <<LiA, LiB, LiC>>}
PipeDocs ==
    {Doc(items, m) : items \in PipeItemLists, m \in {<<>>, MagnetUri("0")}}
        \cup {Page(<<>>, 0)}
PipeSearchResps ==
    {Raised(ExcText(n)) : n \in ErrLens}
        \cup {Plain(Doc(<<LiA>>, <<>>))}
        \cup {Atob(p, d) : p \in Payloads, d \in PipeDocs}
PipeDetailResps ==
    {Raised(ExcText(n)) : n \in ErrLens}
        \cup {Plain(Page(MagnetUri("1"), MinHexLen)), Plain(Page(MagnetUri("2"), MinHexLen + 2)),
              Plain(Page(MagnetUri("3"), MinHexLen - 8)), Plain(EmptyHtml),
              Atob(PayloadOk, Page(MagnetUri("2"), MinHexLen)),
              Atob(<<"d">>, Page(MagnetUri("1"), MinHexLen))}

\* Concurrent commands: few shapes of response.
ConcMsgs == {<<BT, Keyword>>, <<BT>>}
ConcCfgs == {DefaultConfig}
ConcSearchResps == {Raised(ExcText(2)), Atob(PayloadOk, Doc(<<LiA, LiB>>, <<>>))}
ConcDetailResps == {Raised(ExcText(2)), Plain(Page(MagnetUri("1"), MinHexLen))}

\* Command parsing: every message of at most MaxArgs tokens.
Tokens == {BT, FlagP, FlagPage, Keyword, <<"0">>, <<"2">>, <<"sup2">>}
CmdMsgs == UNION {[1 .. n -> Tokens] : n \in 0 .. MaxArgs}
CmdCfgs == {DefaultConfig}
CmdSearchResps == {Plain(EmptyHtml), Atob(PayloadOk, Doc(<<LiA>>, <<>>))}
CmdDetailResps == {Plain(Page(MagnetUri("1"), MinHexLen))}

\* Pagination: every page of every result length and page size.
PageMsgs ==
    {<<BT, Keyword>>} \cup {<<BT, Keyword, FlagPage, <<ToString(p)>>>> : p \in 1 .. MaxLen + 1}
PageCfgs == {[max_results |-> MaxLen, page_size |-> ps] : ps \in -1 .. MaxLen + 1}
PageSearchResps ==
    {Raised(ExcText(2))}
        \cup {Atob(PayloadOk, Doc([i \in 1 .. n |-> LiN(i)], <<>>)) : n \in 0 .. MaxLen}
PageDetailResps == {Raised(ExcText(2)), Plain(Page(MagnetUri("1"), MinHexLen))}

\* The candidate-collection loop: every list of at most MaxItems li.
LoopLiKinds == {LiPagination, LiNoAnchor, LiA, LiADot, LiB, LiC}
LoopItemLists == UNION {[1 .. n -> LoopLiKinds] : n \in 0 .. MaxItems}

\* ---------------------------------------------------------- specifications
Step(h, msgs, cfgs, searchResps, detailResps) ==
    \/ \E args \in msgs, cfg \in cfgs : Command(h, args, cfg)
    \/ \E resp \in searchResps : SearchResponse(h, resp)
    \/ \E resp \in detailResps : DetailResponse(h, resp)
    \/ SearchReturn(h)

\* One command through the pipeline.
Init == InitPlugin /\ InitLoopIdle
Next == Step(1, PipeMsgs, PipeCfgs, PipeSearchResps, PipeDetailResps)
Spec == Init /\ [][Next]_vars

\* NumInv commands whose searches interleave at their awaits.
NextConc == \E h \in Invs : Step(h, ConcMsgs, ConcCfgs, ConcSearchResps, ConcDetailResps)
SpecConc == Init /\ [][NextConc]_vars

\* One command, every message.
NextCmd == Step(1, CmdMsgs, CmdCfgs, CmdSearchResps, CmdDetailResps)
SpecCmd == Init /\ [][NextCmd]_vars

\* One command, every page.
NextPage == Step(1, PageMsgs, PageCfgs, PageSearchResps, PageDetailResps)
SpecPage == Init /\ [][NextPage]_vars

\* The candidate-collection loop, one iteration at a time.
InitCollect ==
    /\ InitPlugin
    /\ loop = LoopStart
    /\ loop_items \in LoopItemLists
    /\ loop_max \in 0 .. MaxCfg

LoopEnded == loop.stopped \/ loop.idx >= Len(loop_items)

LoopIteration ==
    /\ ~LoopEnded
    /\ loop' = LoopBody(loop, loop_items[loop.idx + 1], loop_max)
    /\ UNCHANGED <<plugin_vars, inv_vars, loop_items, loop_max>>

SpecCollect == InitCollect /\ [][LoopIteration]_vars

\* ------------------------------------------------------------------ claims
\* search was called by invocation h, and has run its finally clause.
Searched(h) == call[h] # <<>>
Finished(h) == Searched(h) /\ pc[h] \in {"await_close", "done"}

\* t is s[:n]
IsPrefixOfAtMost(t, s, n) == Len(t) = Min(n, Len(s)) /\ t = SubSeq(s, 1, Len(t))

\* C1: once search has opened a session, that session is closed when search
\* reaches its return, on every exit path (records, early empty return,
\* exception of the search request), and every request was issued on a
\* session that was still open.
C1_SessionClosedOnEveryPath ==
    \A h \in Invs :
        /\ Searched(h) => \E c \in DOMAIN sessions : sessions[c].owner = h
        /\ Finished(h) =>
              \A c \in DOMAIN sessions : sessions[c].owner = h => sessions[c].state = "closed"
        /\ \A k \in 1 .. Len(reqLog[h]) : reqLog[h][k].open

C1_Witness ==
    /\ pc[1] = "done"
    /\ search_resp[1] # <<>> /\ ~search_resp[1][1].ok
    /\ closeLog[1] # <<>> /\ sessions[closeLog[1][1]].state = "closed"

\* C2: with candidates c1..cn, search returns n records in candidate order,
\* record i titled as candidate i; exactly the candidates whose detail
\* request raised have a degraded record (title, the error text cut to 30
\* characters, size), every other record holds the magnet line, and a
\* failure neither drops a record nor ends the loop.
C2_PerCandidateIsolation ==
    \A h \in Invs :
        /\ detail_links[h] # <<>> => Len(results[h]) = Len(fetched[h])
        /\ (pc[h] = "await_detail") => Len(fetched[h]) < Len(detail_links[h])
        /\ (Finished(h) /\ detail_links[h] # <<>>) =>
              /\ Len(results[h]) = Len(detail_links[h])
              /\ \A i \in 1 .. Len(detail_links[h]) :
                    LET r == results[h][i]
                        link == detail_links[h][i]
                        resp == fetched[h][i]
                    IN  /\ r[1] = Line("title:", link.title)
                        /\ IF resp.ok
                           THEN Len(r) = 4 /\ r[2].label = "magnet:"
                           ELSE /\ Len(r) = 3
                                /\ r[2].label = "parse_failed:"
                                /\ IsPrefixOfAtMost(r[2].value, resp.exc, DetailErrLimit)
                                /\ r[3] = Line("size:", link.size)

C2_Witness ==
    /\ pc[1] = "done"
    /\ Len(detail_links[1]) = 3 /\ Len(results[1]) = 3
    /\ fetched[1][1].ok /\ fetched[1][3].ok
    /\ ~fetched[1][2].ok /\ Len(fetched[1][2].exc) > DetailErrLimit

C4_DedupAndBound ==
    /\ Len(loop.detail_links) <= loop_max
    /\ \A i, j \in 1 .. Len(loop.detail_links) :
          i # j => loop.detail_links[i].url # loop.detail_links[j].url
    /\ loop.processed_urls = {loop.detail_links[i].url : i \in 1 .. Len(loop.detail_links)}

C4_Witness ==
    /\ loop.stopped
    /\ Len(loop_items) > loop_max
    /\ Len(loop.detail_links) = 2
    /\ \E i, j \in 1 .. loop.idx :
          /\ i < j
          /\ loop_items[i] = LiA /\ loop_items[j] = LiADot

\* li passes the two filters of the loop.
Qualifies(li) == ~li.pagination /\ HasDetailLink(li)

QualifyingUrls(items) ==
    {get_full_url(BaseUrl, items[i].href) : i \in {k \in 1 .. Len(items) : Qualifies(items[k])}}

\* C5: skipped items do not count toward max_results: when the list holds at
\* least max_results distinct qualifying items, the loop ends with exactly
\* max_results candidates.
C5_SkippedItemsDoNotCount ==
    (LoopEnded /\ Cardinality(QualifyingUrls(loop_items)) >= loop_max)
        => Len(loop.detail_links) = loop_max

\* The document a detail response yields: its payload decoded, or its text.
DetailPageOf(resp) ==
    IF ~resp.body.marker THEN resp.body.html
    ELSE IF B64DecodeOk(resp.body.payload) THEN resp.body.html
    ELSE EmptyHtml

\* C6: the magnet line of a candidate's record is the magnet URI of that
\* candidate's own detail page, whatever the search-results page holds.
C6_MagnetOfOwnDetailPage ==
    \A h \in Invs :
        \A i \in 1 .. Len(fetched[h]) :
            LET page == DetailPageOf(fetched[h][i])
            IN  (fetched[h][i].ok /\ page.magnet # <<>> /\ page.hexlen >= MinHexLen)
                    => results[h][i][2] = Line("magnet:", page.magnet)

\* The page flag the handler reads: the first "-p", or without any "-p" the
\* first "--page"; 0 when the command has none.
FlagAt(rest) ==
    IF Contains(rest, FlagP) THEN IndexOf(rest, FlagP)
    ELSE IF Contains(rest, FlagPage) THEN IndexOf(rest, FlagPage)
    ELSE 0

\* tok is a decimal numeral
Numeric(tok) == Len(tok) > 0 /\ \A i \in 1 .. Len(tok) : IsDecimalChar(tok[i])

BadPageFlag(rest) ==
    LET f == FlagAt(rest)
    IN  f # 0 /\ (f = Len(rest) \/ ~Numeric(rest[f + 1]) \/ IntVal(rest[f + 1]) < 1)

KeywordMissing(rest) ==
    LET f == FlagAt(rest)
    IN  \A i \in 1 .. Len(rest) : f # 0 /\ i \in {f, f + 1}

\* C7: a "bt" command without a keyword, or whose page flag is followed by no
\* value, a non-numeric value or a value below 1, is answered with a usage or
\* invalid-page message and never reaches search; search is called only with
\* a non-empty keyword and a page >= 1.
C7_InvalidInputRejected ==
    \A h \in Invs :
        /\ (pc[h] # "idle" /\ message[h] # <<>> /\ message[h][1] = BT
              /\ (KeywordMissing(Tail(message[h])) \/ BadPageFlag(Tail(message[h])))) =>
              /\ ~Searched(h) /\ reqLog[h] = <<>>
              /\ pc[h] = "done"
              /\ Len(chain[h]) = 1
              /\ chain[h][1].label \in {"usage", "invalid_page", "page_below_1"}
        /\ Searched(h) => call[h][1].keyword # <<>> /\ call[h][1].page >= 1

\* C8: in every interleaving, each invocation issues its requests on the
\* session it opened, while that session is open, closes that session and no
\* other, and when all invocations have ended every opened session is closed.
C8_SessionsNotShared ==
    /\ \A h \in Invs :
          /\ \A k \in 1 .. Len(reqLog[h]) :
                /\ reqLog[h][k].open
                /\ reqLog[h][k].client # 0
                /\ sessions[reqLog[h][k].client].owner = h
          /\ \A k \in 1 .. Len(closeLog[h]) : sessions[closeLog[h][k]].owner = h
          /\ Finished(h) => Len(closeLog[h]) = 1
    /\ (\A h \in Invs : pc[h] \in {"done", "raised"}) =>
          \A c \in DOMAIN sessions : sessions[c].state \in {"none", "closed"}

C8_Witness ==
    /\ pc[1] = "await_detail" /\ pc[2] = "await_detail"
    /\ Len(reqLog[1]) = 3 /\ Len(reqLog[2]) = 2
    /\ sessions[reqLog[1][3].client].owner = 1
    /\ sessions[reqLog[2][2].client].owner = 2
    /\ sessions[1].state = "open" /\ sessions[2].state = "open"

\* No li among those the loop examines passes its filters.
NoSurvivor(items, max_results) ==
    \A i \in 1 .. Min(Len(items), max_results) : ~Qualifies(items[i])

\* C9: search returns the empty sequence, after exactly one request, when
\* the search response has no payload marker, when the payload does not
\* decode, when the decoded document has no result list, and when no item of
\* the list survives the filters.
C9_EmptyResultPaths ==
    \A h \in Invs :
        (/\ Finished(h)
         /\ search_resp[h] # <<>>
         /\ search_resp[h][1].ok
         /\ LET body == search_resp[h][1].body
            IN  \/ ~body.marker
                \/ ~B64DecodeOk(body.payload)
                \/ ~body.html.container
                \/ NoSurvivor(body.html.items, services[self_[h]].config.max_results))
        => /\ results[h] = <<>>
           /\ Len(reqLog[h]) = 1
           /\ fetched[h] = <<>>
           /\ pc[h] = "done" => chain[h] = <<Entry("not_found", 0, 0, 0, <<>>)>>

C9_Witness ==
    /\ pc[1] = "done"
    /\ search_resp[1] # <<>> /\ search_resp[1][1].ok
    /\ search_resp[1][1].body.marker
    /\ ~B64DecodeOk(search_resp[1][1].body.payload)
    /\ search_resp[1][1].body.html.items = <<LiA, LiB, LiC>>
    /\ results[1] = <<>>

\* C10: for results of length L and configured page_size, with s = page_size
\* if > 0 else L and T = ceil(L / s): page p <= T shows, numbered by their
\* positions, exactly the records at positions (p-1)s+1 .. min(ps, L), a
\* non-empty run of at most s, so that pages 1..T partition the results; a
\* page p > T yields only the out-of-range message.
C10_PagesPartitionResults ==
    \A h \in Invs :
        (pc[h] = "done" /\ Searched(h) /\ results[h] # <<>>) =>
            LET R == results[h]
                L == Len(R)
                s == IF search_config.page_size > 0 THEN search_config.page_size ELSE L
                T == (L + s - 1) \div s
                p == call[h][1].page
                shown == Tail(chain[h])
            IN  IF p > T
                THEN chain[h] = <<Entry("out_of_range", T, 0, 0, <<>>)>>
                ELSE /\ chain[h][1] = Entry("found", L, p, T, <<>>)
                     /\ Len(shown) = Min(p * s, L) - (p - 1) * s
                     /\ Len(shown) \in 1 .. s
                     /\ \A i \in 1 .. Len(shown) :
                           /\ shown[i].label = "result"
                           /\ shown[i].a = (p - 1) * s + i
                           /\ shown[i].res = R[(p - 1) * s + i]

C10_Witness ==
    /\ pc[1] = "done"
    /\ Len(results[1]) = 3
    /\ search_config.page_size = 2
    /\ call[1][1].page = 2
    /\ Len(chain[1]) = 2
    /\ chain[1][2].a = 3

====
